---- MODULE Spec2Model ----
(***************************************************************************)
(* Model of conventions.py: the naming registry (kinds, subfolders,        *)
(* reserved_attributes) built by the module-level assignments, and the     *)
(* compound-name codec (get_chi2_name, undo_chi2_name, get_chi2_label,     *)
(* get_minuslogpior_name, the list mappers and the underscored variants).  *)
(*                                                                         *)
(* A Python string is a sequence of one-character strings.  A Python value *)
(* is a record [type, chars, num]: type "str" carries chars, type "int"    *)
(* carries num, type "bool" carries num (1 or 0), and a raised exception   *)
(* is a value whose type is the exception's name.                          *)
(***************************************************************************)
EXTENDS Integers, Sequences, FiniteSets

VARIABLES pc, defined, kinds, reserved_attributes, subfolders,
          derived_par_name_separator, OutPar, _separator, _chi2,
          op, arg, args, result, results

vars == <<pc, defined, kinds, reserved_attributes, subfolders,
          derived_par_name_separator, OutPar, _separator, _chi2,
          op, arg, args, result, results>>

registry == <<kinds, reserved_attributes, subfolders>>

globals == <<pc, defined, kinds, reserved_attributes, subfolders,
             derived_par_name_separator, OutPar, _separator, _chi2>>

----------------------------------------------------------------------------
(* Bounds of the model *)

\* longest caller-supplied name over Alphabet
MaxLen == 3
\* largest integer passed where a name is expected
MaxInt == 11
\* longest list handed to the list mappers
MaxList == 2
\* longest result of one call that is passed on as the argument of the next
MaxFeedLen == 18

----------------------------------------------------------------------------
(* Python values *)

StrVal(s) == [type |-> "str", chars |-> s, num |-> 0]
IntVal(n) == [type |-> "int", chars |-> <<>>, num |-> n]
BoolVal(b) == [type |-> "bool", chars |-> <<>>, num |-> IF b THEN 1 ELSE 0]
Raise(e) == [type |-> e, chars |-> <<>>, num |-> 0]
None == [type |-> "None", chars |-> <<>>, num |-> 0]

IsStr(v) == v.type = "str"

\* s[n:] for a string s and n >= 0
SliceFrom(s, n) == IF n >= Len(s) THEN <<>> ELSE SubSeq(s, n + 1, Len(s))

\* s.startswith(prefix)
StartsWith(s, prefix) ==
    /\ Len(s) >= Len(prefix)
    /\ \A i \in 1..Len(prefix) : s[i] = prefix[i]

\* the token occurs somewhere in s
Contains(s, token) ==
    \E i \in 0..(Len(s) - Len(token)) : StartsWith(SliceFrom(s, i), token)

Digits == <<"0", "1", "2", "3", "4", "5", "6", "7", "8", "9">>

RECURSIVE Decimal(_)
Decimal(n) == IF n < 10 THEN <<Digits[n + 1]>>
              ELSE Decimal(n \div 10) \o <<Digits[(n % 10) + 1]>>

\* str(p): a string is returned as it is, an integer is written in decimal
str(p) == IF p.type = "int" THEN Decimal(p.num) ELSE p.chars

\* s.replace(old, new) for a one-character old
RECURSIVE replace(_, _, _)
replace(s, old, new) ==
    IF s = <<>> THEN <<>>
    ELSE (IF Head(s) = old THEN new ELSE <<Head(s)>>) \o replace(Tail(s), old, new)

----------------------------------------------------------------------------
(* String literals of the module *)

Lit_sampler == <<"s", "a", "m", "p", "l", "e", "r">>
Lit_theory == <<"t", "h", "e", "o", "r", "y">>
Lit_likelihood == <<"l", "i", "k", "e", "l", "i", "h", "o", "o", "d">>
Lit_samplers == <<"s", "a", "m", "p", "l", "e", "r", "s">>
Lit_theories == <<"t", "h", "e", "o", "r", "i", "e", "s">>
Lit_likelihoods == <<"l", "i", "k", "e", "l", "i", "h", "o", "o", "d", "s">>
Lit_install_options ==
    <<"i", "n", "s", "t", "a", "l", "l", "_", "o", "p", "t", "i", "o", "n", "s">>
Lit_bibtex_file == <<"b", "i", "b", "t", "e", "x", "_", "f", "i", "l", "e">>
Lit_file_base_name ==
    <<"f", "i", "l", "e", "_", "b", "a", "s", "e", "_", "n", "a", "m", "e">>
Lit_weight == <<"w", "e", "i", "g", "h", "t">>
Lit_minuslogpost == <<"m", "i", "n", "u", "s", "l", "o", "g", "p", "o", "s", "t">>
Lit_minuslogprior ==
    <<"m", "i", "n", "u", "s", "l", "o", "g", "p", "r", "i", "o", "r">>
Lit_chi2 == <<"c", "h", "i", "2">>
Lit_label_open ==
    <<"\\", "c", "h", "i", "^", "2", "_", "\\", "m", "a", "t", "h", "r", "m", "{">>
Lit_label_space == <<"\\", " ">>
Lit_label_close == <<"}">>

_input_params == <<"i", "n", "p", "u", "t", "_", "p", "a", "r", "a", "m", "s">>
_output_params == <<"o", "u", "t", "p", "u", "t", "_", "p", "a", "r", "a", "m", "s">>

\* kinds = ("sampler", "theory", "likelihood")
kinds_first == <<Lit_sampler, Lit_theory, Lit_likelihood>>

\* ComponentKinds._fields; kinds = ComponentKinds(*ComponentKinds._fields)
ComponentKinds_fields == <<Lit_sampler, Lit_theory, Lit_likelihood>>

\* kinds.sampler, kinds.theory, kinds.likelihood: the fields by position
kinds_sampler == kinds[1]
kinds_theory == kinds[2]
kinds_likelihood == kinds[3]

reserved_attributes_first ==
    {_input_params, _output_params, Lit_install_options, Lit_bibtex_file,
     Lit_file_base_name}

\* variant: the later assignment repeats the earlier set
reserved_attributes_final_Stale ==
    {_input_params, _output_params, Lit_install_options, Lit_bibtex_file,
     Lit_file_base_name}

reserved_attributes_final ==
    {_input_params, _output_params, Lit_install_options, Lit_bibtex_file}

subfolders_first ==
    [k \in {Lit_likelihood, Lit_sampler, Lit_theory} |->
        IF k = Lit_likelihood THEN Lit_likelihoods
        ELSE IF k = Lit_sampler THEN Lit_samplers ELSE Lit_theories]

\* variant: kinds.sampler written twice, the later entry winning
subfolders_final_DupKey ==
    [k \in {kinds_likelihood, kinds_sampler} |->
        IF k = kinds_likelihood THEN Lit_likelihoods ELSE Lit_theories]

subfolders_final ==
    [k \in {kinds_likelihood, kinds_sampler, kinds_theory} |->
        IF k = kinds_likelihood THEN Lit_likelihoods
        ELSE IF k = kinds_sampler THEN Lit_samplers ELSE Lit_theories]

OutPar_class ==
    [weight |-> Lit_weight, minuslogpost |-> Lit_minuslogpost,
     minuslogprior |-> Lit_minuslogprior, chi2 |-> Lit_chi2]

OutPar_unbound == [weight |-> <<>>, minuslogpost |-> <<>>,
                   minuslogprior |-> <<>>, chi2 |-> <<>>]

public_functions ==
    {"get_chi2_name", "undo_chi2_name", "get_chi2_label",
     "get_minuslogpior_name", "minuslogprior_names", "chi2_names"}

legacy_functions == {"_get_chi2_name", "_undo_chi2_name", "_get_chi2_label"}

----------------------------------------------------------------------------
(* The codec, computed from the module globals as the functions read them *)

\* variant: the separator left out
get_chi2_name_NoSeparator(p) == StrVal(OutPar.chi2 \o str(p))

get_chi2_name(p) == StrVal(OutPar.chi2 \o derived_par_name_separator \o str(p))

\* variant: only the base token is sliced off
undo_chi2_name_BaseOnly(p) ==
    IF IsStr(p) THEN StrVal(SliceFrom(p.chars, Len(OutPar.chi2)))
    ELSE Raise("TypeError")

\* variant: the prefix is checked before slicing
undo_chi2_name_Checked(p) ==
    IF ~IsStr(p) THEN Raise("TypeError")
    ELSE IF StartsWith(p.chars, OutPar.chi2 \o derived_par_name_separator)
    THEN StrVal(SliceFrom(p.chars, Len(OutPar.chi2 \o derived_par_name_separator)))
    ELSE Raise("InvalidNameError")

undo_chi2_name(p) ==
    IF IsStr(p)
    THEN StrVal(SliceFrom(p.chars, Len(OutPar.chi2 \o derived_par_name_separator)))
    ELSE Raise("TypeError")

get_chi2_label(p) ==
    StrVal(Lit_label_open \o replace(str(p), "_", Lit_label_space) \o Lit_label_close)

\* variant: the neighbouring field name
get_minuslogpior_name_WrongBase(piname) ==
    IF IsStr(piname)
    THEN StrVal(OutPar.minuslogpost \o derived_par_name_separator \o piname.chars)
    ELSE Raise("TypeError")

\* variant: the separator left out
get_minuslogpior_name_NoSeparator(piname) ==
    IF IsStr(piname) THEN StrVal(OutPar.minuslogprior \o piname.chars)
    ELSE Raise("TypeError")

get_minuslogpior_name(piname) ==
    IF IsStr(piname)
    THEN StrVal(OutPar.minuslogprior \o derived_par_name_separator \o piname.chars)
    ELSE Raise("TypeError")

\* [f(x) for x in xs] with f one of the two composers
minuslogprior_names(prior) ==
    [i \in 1..Len(prior) |-> get_minuslogpior_name(prior[i])]

\* variant: the list is built back to front
chi2_names_Reversed(likes) ==
    [i \in 1..Len(likes) |-> get_chi2_name(likes[Len(likes) + 1 - i])]

chi2_names(likes) == [i \in 1..Len(likes) |-> get_chi2_name(likes[i])]

\* variant: str() left out, so a non-string cannot be concatenated
_get_chi2_name_NoStr(p) ==
    IF IsStr(p) THEN StrVal(_chi2 \o _separator \o p.chars)
    ELSE Raise("TypeError")

_get_chi2_name(p) == StrVal(_chi2 \o _separator \o str(p))

_undo_chi2_name(p) ==
    IF IsStr(p) THEN StrVal(SliceFrom(p.chars, Len(_chi2 \o _separator)))
    ELSE Raise("TypeError")

_get_chi2_label(p) ==
    StrVal(Lit_label_open \o replace(str(p), "_", Lit_label_space) \o Lit_label_close)

\* variant: subfolders.get(kind, "")
subfolders_getitem_Default(kind) ==
    IF IsStr(kind) /\ kind.chars \in DOMAIN subfolders
    THEN StrVal(subfolders[kind.chars]) ELSE StrVal(<<>>)

\* subfolders[kind]
subfolders_getitem(kind) ==
    IF IsStr(kind) /\ kind.chars \in DOMAIN subfolders
    THEN StrVal(subfolders[kind.chars]) ELSE Raise("KeyError")

\* name in reserved_attributes
reserved_attributes_contains(name) ==
    BoolVal(IsStr(name) /\ name.chars \in reserved_attributes)

\* f(v) for a one-argument function of the module, by name
Apply(f, v) ==
    CASE f = "get_chi2_name" -> get_chi2_name(v)
      [] f = "undo_chi2_name" -> undo_chi2_name(v)
      [] f = "get_chi2_label" -> get_chi2_label(v)
      [] f = "get_minuslogpior_name" -> get_minuslogpior_name(v)
      [] f = "_get_chi2_name" -> _get_chi2_name(v)
      [] f = "_undo_chi2_name" -> _undo_chi2_name(v)
      [] f = "_get_chi2_label" -> _get_chi2_label(v)

\* the functions of the module that take one name (the mappers take lists)
one_argument_functions ==
    {"get_chi2_name", "undo_chi2_name", "get_chi2_label",
     "get_minuslogpior_name", "_get_chi2_name", "_undo_chi2_name",
     "_get_chi2_label"}

\* a list comprehension raises as soon as one element raises
ListOutcome(rs) ==
    IF \E i \in 1..Len(rs) : rs[i].type = "TypeError" THEN Raise("TypeError")
    ELSE None

----------------------------------------------------------------------------
(* Arguments the callers pass *)

Alphabet == {"a", "_"}

StringsUpTo(n) == UNION {[1..k -> Alphabet] : k \in 0..n}

\* names used by the documented scenarios, and near-prefixes of "chi2__"
planck_2018 == <<"p", "l", "a", "n", "c", "k", "_", "2", "0", "1", "8">>
H0 == <<"H", "0">>
arbitrary_unrelated_name ==
    <<"a", "r", "b", "i", "t", "r", "a", "r", "y", "_", "u", "n", "r", "e",
      "l", "a", "t", "e", "d", "_", "n", "a", "m", "e">>
chi2_one_underscore == <<"c", "h", "i", "2", "_">>
chi2_prefix_only == <<"c", "h", "i", "2", "_", "_">>

ScenarioNames ==
    {planck_2018, H0, arbitrary_unrelated_name, chi2_one_underscore,
     chi2_prefix_only, Lit_sampler, Lit_theory, Lit_likelihood, Lit_samplers,
     _input_params, _output_params, Lit_install_options, Lit_bibtex_file,
     Lit_file_base_name}

Names == StringsUpTo(MaxLen) \cup ScenarioNames

\* the result of the last call, when it is a string short enough to pass on
Feed == IF IsStr(result) /\ Len(result.chars) <= MaxFeedLen THEN {result} ELSE {}

Inputs == {StrVal(s) : s \in Names} \cup {IntVal(n) : n \in 0..MaxInt} \cup Feed

\* the empty name, the one-character names, a scenario name and an integer
ListElems == {StrVal(<<>>), StrVal(H0), IntVal(MaxInt)}
                 \cup {StrVal(<<c>>) : c \in Alphabet}

ListInputs == UNION {[1..k -> ListElems] : k \in 0..MaxList}

----------------------------------------------------------------------------
(* Module initialisation: the module-level statements, in source order *)

Init ==
    /\ pc = "L23"
    /\ defined = {}
    /\ kinds = <<>>
    /\ reserved_attributes = {}
    /\ subfolders = [k \in {} |-> <<>>]
    /\ derived_par_name_separator = <<>>
    /\ OutPar = OutPar_unbound
    /\ _separator = <<>>
    /\ _chi2 = <<>>
    /\ op = "none"
    /\ arg = None
    /\ args = <<>>
    /\ result = None
    /\ results = <<>>

calls == <<op, arg, args, result, results>>

Stmt23_kinds ==
    /\ pc = "L23"
    /\ kinds' = kinds_first
    /\ pc' = "L27"
    /\ UNCHANGED <<defined, reserved_attributes, subfolders,
                   derived_par_name_separator, OutPar, _separator, _chi2, calls>>

Stmt27_reserved_attributes ==
    /\ pc = "L27"
    /\ reserved_attributes' = reserved_attributes_first
    /\ pc' = "L36"
    /\ UNCHANGED <<defined, kinds, subfolders,
                   derived_par_name_separator, OutPar, _separator, _chi2, calls>>

Stmt36_derived_par_name_separator ==
    /\ pc = "L36"
    /\ derived_par_name_separator' = <<"_", "_">>
    /\ pc' = "L41"
    /\ UNCHANGED <<defined, kinds, reserved_attributes, subfolders,
                   OutPar, _separator, _chi2, calls>>

Stmt41_OutPar ==
    /\ pc = "L41"
    /\ OutPar' = OutPar_class
    /\ pc' = "L52"
    /\ UNCHANGED <<defined, kinds, reserved_attributes, subfolders,
                   derived_par_name_separator, _separator, _chi2, calls>>

Stmt52_defs ==
    /\ pc = "L52"
    /\ defined' = defined \cup public_functions
    /\ pc' = "L109"
    /\ UNCHANGED <<kinds, reserved_attributes, subfolders,
                   derived_par_name_separator, OutPar, _separator, _chi2, calls>>

Stmt109_subfolders ==
    /\ pc = "L109"
    /\ subfolders' = subfolders_first
    /\ pc' = "L175"
    /\ UNCHANGED <<defined, kinds, reserved_attributes,
                   derived_par_name_separator, OutPar, _separator, _chi2, calls>>

Stmt175_kinds ==
    /\ pc = "L175"
    /\ kinds' = ComponentKinds_fields
    /\ pc' = "L179"
    /\ UNCHANGED <<defined, reserved_attributes, subfolders,
                   derived_par_name_separator, OutPar, _separator, _chi2, calls>>

Stmt179_reserved_attributes ==
    /\ pc = "L179"
    /\ reserved_attributes' = reserved_attributes_final
    /\ pc' = "L188"
    /\ UNCHANGED <<defined, kinds, subfolders,
                   derived_par_name_separator, OutPar, _separator, _chi2, calls>>

Stmt188_separator ==
    /\ pc = "L188"
    /\ _separator' = <<"_", "_">>
    /\ pc' = "L195"
    /\ UNCHANGED <<defined, kinds, reserved_attributes, subfolders,
                   derived_par_name_separator, OutPar, _chi2, calls>>

Stmt195_chi2 ==
    /\ pc = "L195"
    /\ _chi2' = Lit_chi2
    /\ pc' = "L196"
    /\ UNCHANGED <<defined, kinds, reserved_attributes, subfolders,
                   derived_par_name_separator, OutPar, _separator, calls>>

Stmt196_lambdas ==
    /\ pc = "L196"
    /\ defined' = defined \cup legacy_functions
    /\ pc' = "L226"
    /\ UNCHANGED <<kinds, reserved_attributes, subfolders,
                   derived_par_name_separator, OutPar, _separator, _chi2, calls>>

Stmt226_subfolders ==
    /\ pc = "L226"
    /\ subfolders' = subfolders_final
    /\ pc' = "done"
    /\ UNCHANGED <<defined, kinds, reserved_attributes,
                   derived_par_name_separator, OutPar, _separator, _chi2, calls>>

----------------------------------------------------------------------------
(* Calls made by importers once the module is initialised *)

\* a call of a one-argument function: records the argument and the outcome
Return(name, p, r) ==
    /\ op' = name
    /\ arg' = p
    /\ args' = <<>>
    /\ result' = r
    /\ results' = <<>>
    /\ UNCHANGED globals

\* a call of a list mapper: the list built, or the exception raised
ReturnList(name, xs, rs) ==
    /\ op' = name
    /\ arg' = None
    /\ args' = xs
    /\ result' = ListOutcome(rs)
    /\ results' = IF ListOutcome(rs) = None THEN rs ELSE <<>>
    /\ UNCHANGED globals

Call_get_chi2_name ==
    /\ pc = "done" /\ "get_chi2_name" \in defined
    /\ \E p \in Inputs : Return("get_chi2_name", p, get_chi2_name(p))

Call_undo_chi2_name ==
    /\ pc = "done" /\ "undo_chi2_name" \in defined
    /\ \E p \in Inputs : Return("undo_chi2_name", p, undo_chi2_name(p))

Call_get_chi2_label ==
    /\ pc = "done" /\ "get_chi2_label" \in defined
    /\ \E p \in Inputs : Return("get_chi2_label", p, get_chi2_label(p))

Call_get_minuslogpior_name ==
    /\ pc = "done" /\ "get_minuslogpior_name" \in defined
    /\ \E p \in Inputs :
          Return("get_minuslogpior_name", p, get_minuslogpior_name(p))

Call_minuslogprior_names ==
    /\ pc = "done" /\ "minuslogprior_names" \in defined
    /\ \E xs \in ListInputs :
          ReturnList("minuslogprior_names", xs, minuslogprior_names(xs))

Call_chi2_names ==
    /\ pc = "done" /\ "chi2_names" \in defined
    /\ \E xs \in ListInputs : ReturnList("chi2_names", xs, chi2_names(xs))

Call__get_chi2_name ==
    /\ pc = "done" /\ "_get_chi2_name" \in defined
    /\ \E p \in Inputs : Return("_get_chi2_name", p, _get_chi2_name(p))

Call__undo_chi2_name ==
    /\ pc = "done" /\ "_undo_chi2_name" \in defined
    /\ \E p \in Inputs : Return("_undo_chi2_name", p, _undo_chi2_name(p))

Call__get_chi2_label ==
    /\ pc = "done" /\ "_get_chi2_label" \in defined
    /\ \E p \in Inputs : Return("_get_chi2_label", p, _get_chi2_label(p))

Lookup_subfolders ==
    /\ pc = "done"
    /\ \E k \in Inputs : Return("subfolders[]", k, subfolders_getitem(k))

Test_reserved_attributes ==
    /\ pc = "done"
    /\ \E n \in Inputs :
          Return("in reserved_attributes", n, reserved_attributes_contains(n))

Next ==
    \/ Stmt23_kinds
    \/ Stmt27_reserved_attributes
    \/ Stmt36_derived_par_name_separator
    \/ Stmt41_OutPar
    \/ Stmt52_defs
    \/ Stmt109_subfolders
    \/ Stmt175_kinds
    \/ Stmt179_reserved_attributes
    \/ Stmt188_separator
    \/ Stmt195_chi2
    \/ Stmt196_lambdas
    \/ Stmt226_subfolders
    \/ Call_get_chi2_name
    \/ Call_undo_chi2_name
    \/ Call_get_chi2_label
    \/ Call_get_minuslogpior_name
    \/ Call_minuslogprior_names
    \/ Call_chi2_names
    \/ Call__get_chi2_name
    \/ Call__undo_chi2_name
    \/ Call__get_chi2_label
    \/ Lookup_subfolders
    \/ Test_reserved_attributes

Spec == Init /\ [][Next]_vars

----------------------------------------------------------------------------
(* Vocabulary of the properties *)

Sep == <<"_", "_">>
Chi2Prefix == <<"c", "h", "i", "2", "_", "_">>
MinusLogPriorPrefix ==
    <<"m", "i", "n", "u", "s", "l", "o", "g", "p", "r", "i", "o", "r", "_", "_">>
chi2__planck_2018 ==
    <<"c", "h", "i", "2", "_", "_", "p", "l", "a", "n", "c", "k", "_", "2",
      "0", "1", "8">>
minuslogprior__H0 ==
    <<"m", "i", "n", "u", "s", "l", "o", "g", "p", "r", "i", "o", "r", "_",
      "_", "H", "0">>
ogprior__ == <<"o", "g", "p", "r", "i", "o", "r", "_", "_">>

IsRaised(v) == v.type \notin {"str", "bool", "int", "None"}

\* the non-empty, separator-free strings s that a string value v ends with
PlainSuffixes(v) ==
    {s \in {SliceFrom(v.chars, i) : i \in 0..Len(v.chars)} :
        s # <<>> /\ ~Contains(s, Sep)}

KindNames == {Lit_sampler, Lit_theory, Lit_likelihood}

----------------------------------------------------------------------------
\* C1: whenever undo_chi2_name is applied to get_chi2_name(s) for a non-empty
\* string s that does not contain "__", it returns s.
C1_Chi2RoundTrip ==
    op = "undo_chi2_name" =>
        \A s \in PlainSuffixes(arg) :
            arg = get_chi2_name(StrVal(s)) => result = StrVal(s)

C1_Witness ==
    /\ op = "undo_chi2_name"
    /\ arg = StrVal(chi2__planck_2018)
    /\ arg = get_chi2_name(StrVal(planck_2018))
    /\ result = StrVal(planck_2018)

\* C2 as stated: undo_chi2_name (and its underscored twin) ends in an error
\* for every string that does not begin with "chi2__".
C2_UndoRejectsBadPrefix ==
    (op \in {"undo_chi2_name", "_undo_chi2_name"} /\ IsStr(arg)
        /\ ~StartsWith(arg.chars, Chi2Prefix)) => IsRaised(result)

\* C2 amended: for every string p, undo_chi2_name(p) raises nothing and
\* returns p without its first 6 characters (the empty string when p has at
\* most 6), whether or not p begins with "chi2__".
C2_UndoSlicesBlindly ==
    (op \in {"undo_chi2_name", "_undo_chi2_name"} /\ IsStr(arg)) =>
        /\ IsStr(result)
        /\ Len(result.chars) =
              (IF Len(arg.chars) > 6 THEN Len(arg.chars) - 6 ELSE 0)
        /\ \A i \in 1..Len(result.chars) : result.chars[i] = arg.chars[i + 6]

C2_Witness ==
    /\ op = "undo_chi2_name"
    /\ arg = StrVal(minuslogprior__H0)
    /\ ~StartsWith(arg.chars, Chi2Prefix)
    /\ IsStr(result)
    /\ result.chars # <<>>

\* C3: a lookup subfolders[kind] returns a non-empty string when kind is one
\* of sampler, theory, likelihood, and raises for every other value.
C3_SubfolderLookup ==
    op = "subfolders[]" =>
        IF IsStr(arg) /\ arg.chars \in KindNames
        THEN IsStr(result) /\ result.chars # <<>>
        ELSE IsRaised(result)

C3_Witness ==
    /\ op = "subfolders[]"
    /\ arg = StrVal(Lit_samplers)
    /\ result.type = "KeyError"

\* C4: for a non-empty string p, get_chi2_name(p) is "chi2__" followed by p,
\* 6 characters longer than p; "planck_2018" gives "chi2__planck_2018" and
\* undo_chi2_name("chi2__planck_2018") gives "planck_2018".
C4_Chi2NameShape ==
    /\ (op = "get_chi2_name" /\ IsStr(arg) /\ arg.chars # <<>>) =>
          /\ result = StrVal(Chi2Prefix \o arg.chars)
          /\ Len(result.chars) = Len(arg.chars) + 6
          /\ StartsWith(result.chars, Chi2Prefix)
    /\ (op = "get_chi2_name" /\ arg = StrVal(planck_2018)) =>
          result = StrVal(chi2__planck_2018)
    /\ (op = "undo_chi2_name" /\ arg = StrVal(chi2__planck_2018)) =>
          result = StrVal(planck_2018)

C4_Witness ==
    /\ op = "get_chi2_name"
    /\ arg = StrVal(planck_2018)
    /\ result = StrVal(chi2__planck_2018)

\* C5: for a string n, get_minuslogpior_name(n) is "minuslogprior__" followed
\* by n; "H0" gives "minuslogprior__H0".
C5_MinusLogPriorNameShape ==
    /\ (op = "get_minuslogpior_name" /\ IsStr(arg)) =>
          result = StrVal(MinusLogPriorPrefix \o arg.chars)
    /\ (op = "get_minuslogpior_name" /\ arg = StrVal(H0)) =>
          result = StrVal(minuslogprior__H0)

C5_Witness ==
    /\ op = "get_minuslogpior_name"
    /\ arg = StrVal(H0)
    /\ result = StrVal(minuslogprior__H0)

\* C6: on a list of names, chi2_names and minuslogprior_names return a list
\* of the same length whose i-th element is the composed name of the i-th
\* input; the empty list gives the empty list.
C6_MappersPreserveOrder ==
    /\ (op = "chi2_names" /\ \A i \in 1..Len(args) : IsStr(args[i])) =>
          /\ result = None
          /\ Len(results) = Len(args)
          /\ \A i \in 1..Len(args) : results[i] = get_chi2_name(args[i])
    /\ (op = "minuslogprior_names" /\ \A i \in 1..Len(args) : IsStr(args[i])) =>
          /\ result = None
          /\ Len(results) = Len(args)
          /\ \A i \in 1..Len(args) :
                results[i] = get_minuslogpior_name(args[i])
    /\ (op \in {"chi2_names", "minuslogprior_names"} /\ args = <<>>) =>
          (result = None /\ results = <<>>)

C6_Witness ==
    /\ op = "chi2_names"
    /\ Len(args) = 2
    /\ args[1] = StrVal(H0)
    /\ args[2] = StrVal(<<"_">>)
    /\ results = <<get_chi2_name(StrVal(H0)), get_chi2_name(StrVal(<<"_">>))>>

\* C7: once the module is initialised the kinds are exactly sampler, theory
\* and likelihood, subfolders has exactly these keys, each with one non-empty
\* subfolder, and no call changes kinds, subfolders or reserved_attributes.
C7_RegistryImmutable ==
    /\ [](pc = "done" =>
            /\ {kinds[i] : i \in 1..Len(kinds)} = KindNames
            /\ Len(kinds) = 3
            /\ DOMAIN subfolders = {kinds[i] : i \in 1..Len(kinds)}
            /\ \A k \in DOMAIN subfolders : subfolders[k] # <<>>)
    /\ [][pc = "done" => UNCHANGED registry]_vars

C7_Witness ==
    /\ pc = "done"
    /\ op = "get_chi2_label"
    /\ IsStr(result)
    /\ DOMAIN subfolders = KindNames
    /\ reserved_attributes = reserved_attributes_final

\* C8: after initialisation the test "name in reserved_attributes" is true
\* exactly for input_params, output_params, install_options and bibtex_file;
\* it is false for file_base_name and for arbitrary_unrelated_name.
C8_ReservedMembership ==
    /\ op = "in reserved_attributes" =>
          result = BoolVal(IsStr(arg) /\ arg.chars \in
                      {_input_params, _output_params, Lit_install_options,
                       Lit_bibtex_file})
    /\ (op = "in reserved_attributes" /\ arg = StrVal(_input_params)) =>
          result = BoolVal(TRUE)
    /\ (op = "in reserved_attributes"
          /\ arg \in {StrVal(arbitrary_unrelated_name),
                      StrVal(Lit_file_base_name)}) => result = BoolVal(FALSE)

C8_Witness ==
    /\ op = "in reserved_attributes"
    /\ arg = StrVal(Lit_file_base_name)
    /\ result = BoolVal(FALSE)

\* C9 as stated: the initialised module defines a function that returns s
\* from get_minuslogpior_name(s) for every non-empty string s without "__".
C9_MinusLogPriorDecoderProvided ==
    pc = "done" =>
        \E f \in defined \cap one_argument_functions :
            \A s \in {n \in Names : n # <<>> /\ ~Contains(n, Sep)} :
                Apply(f, get_minuslogpior_name(StrVal(s))) = StrVal(s)

\* C9 amended: no call of the module returns s from get_minuslogpior_name(s)
\* (s non-empty, without "__"); undo_chi2_name and _undo_chi2_name return
\* "ogprior__" followed by s; and s is what get_minuslogpior_name(s) holds
\* after its first 15 characters.
C9_MinusLogPriorNotDecoded ==
    /\ \A s \in PlainSuffixes(arg) :
          arg = get_minuslogpior_name(StrVal(s)) =>
              /\ result # StrVal(s)
              /\ op \in {"undo_chi2_name", "_undo_chi2_name"} =>
                    result = StrVal(ogprior__ \o s)
    /\ (op = "get_minuslogpior_name" /\ IsStr(arg)) =>
          /\ Len(result.chars) = Len(arg.chars) + 15
          /\ SliceFrom(result.chars, 15) = arg.chars

C9_Witness ==
    /\ op = "_undo_chi2_name"
    /\ arg = get_minuslogpior_name(StrVal(H0))
    /\ result = StrVal(ogprior__ \o H0)

\* C10: the underscored codec behaves as the public one: each call of one
\* returns what the other returns on the same argument, the separator and
\* base-token constants agree, and each undo decodes the other's names.
C10_LegacyCodecAgrees ==
    /\ pc = "done" =>
          (_separator = derived_par_name_separator /\ _chi2 = OutPar.chi2)
    /\ op = "get_chi2_name" => result = _get_chi2_name(arg)
    /\ op = "_get_chi2_name" => result = get_chi2_name(arg)
    /\ op = "undo_chi2_name" => result = _undo_chi2_name(arg)
    /\ op = "_undo_chi2_name" => result = undo_chi2_name(arg)
    /\ op = "get_chi2_label" => result = _get_chi2_label(arg)
    /\ op = "_get_chi2_label" => result = get_chi2_label(arg)
    /\ op = "_undo_chi2_name" =>
          \A s \in PlainSuffixes(arg) :
              arg = get_chi2_name(StrVal(s)) => result = StrVal(s)
    /\ op = "undo_chi2_name" =>
          \A s \in PlainSuffixes(arg) :
              arg = _get_chi2_name(StrVal(s)) => result = StrVal(s)

C10_Witness ==
    /\ op = "_undo_chi2_name"
    /\ arg = get_chi2_name(StrVal(planck_2018))
    /\ result = StrVal(planck_2018)

====
